---- MODULE Spec2Model ----
(***************************************************************************)
(* Model of rga_preproc (src/src/preproc.rs): adapter selection, cache key *)
(* construction, the cached and the uncached adapter call, the recursion   *)
(* guard and the passthrough policy.                                       *)
(*                                                                         *)
(* Strings are sequences of character codes, paths are sequences of        *)
(* components, byte streams are sequences of small naturals.               *)
(***************************************************************************)
EXTENDS Integers, Sequences, FiniteSets, TLC

VARIABLES stack, out, stdout, store, history, fs, versions, lock, calls, procs

vars == <<stack, out, stdout, store, history, fs, versions, lock, calls, procs>>

(***************************************************************************)
(* Bounds                                                                  *)
(***************************************************************************)
\* number of top-level invocations in one behaviour
MaxCalls == 2
\* number of writes and nested calls the adapters of one top-level invocation
\* perform in total
MaxAdapterSteps == 2
\* args.max_archive_recursion of the configuration used
MaxArchiveRecursion == 2
\* args.cache_max_blob_len of the configuration used
CacheMaxBlobLen == 1
\* args.cache_compression_level of the configuration used
CacheCompressionLevel == 9
\* capacity of std::io::BufWriter::new, scaled down
BufWriterCapacity == 2
\* largest modification time the file system hands out
MaxMtime == 2
\* largest version an adapter reaches by upgrades
MaxVersion == 2
\* capacity of the BufReader put around the input
BufReaderCapacity == 8192

Threads == {1, 2}

None == <<"None">>
Some(x) == <<"Some", x>>
IsSome(o) == o[1] = "Some"
Unwrap(o) == o[2]

(***************************************************************************)
(* Strings, paths                                                          *)
(***************************************************************************)
Dot == <<46>>
DotDot == <<46, 46>>
RECURSIVE Concat(_)
Concat(ss) == IF ss = <<>> THEN <<>> ELSE Head(ss) \o Concat(Tail(ss))

RECURSIVE Digits(_)
\* decimal rendering of a natural number, as format!("{}") does
Digits(n) == IF n < 10 THEN <<48 + n>> ELSE Digits(n \div 10) \o <<48 + (n % 10)>>

\* Path::components(): "." is dropped everywhere but in front
Components(p) == SelectSeq([i \in 1..Len(p) |-> <<i, p[i]>>],
                           LAMBDA c : c[2] # Dot \/ c[1] = 1)

\* Path::file_name(): the last component when it is a normal one
file_name(p) ==
    LET cs == Components(p)
    IN  IF cs = <<>> THEN None
        ELSE LET l == cs[Len(cs)][2]
             IN  IF l = Dot \/ l = DotDot THEN None ELSE Some(l)

RECURSIVE CleanInto(_, _)
\* path_clean: drop ".", let ".." cancel the normal component before it
CleanInto(acc, p) ==
    IF p = <<>> THEN acc
    ELSE LET c == Head(p)
         IN  IF c = Dot THEN CleanInto(acc, Tail(p))
             ELSE IF c = DotDot /\ acc # <<>> /\ acc[Len(acc)] # DotDot
                  THEN CleanInto(SubSeq(acc, 1, Len(acc) - 1), Tail(p))
                  ELSE CleanInto(Append(acc, c), Tail(p))

clean(p) == LET r == CleanInto(<<>>, p) IN IF r = <<>> THEN <<Dot>> ELSE r

RECURSIVE JoinPath(_)
\* the string form of a relative path: components joined by '/'
JoinPath(p) == IF p = <<>> THEN <<>>
               ELSE IF Len(p) = 1 THEN p[1]
               ELSE p[1] \o <<47>> \o JoinPath(Tail(p))

\* OsStr::to_string_lossy: invalid bytes become U+FFFD
to_string_lossy(s) == [i \in 1..Len(s) |-> IF s[i] > 127 THEN 65533 ELSE s[i]]

RECURSIVE LastDot(_, _)
LastDot(s, i) == IF i = 0 THEN 0 ELSE IF s[i] = 46 THEN i ELSE LastDot(s, i - 1)

\* the extension of a file name: what follows its last '.'
Extension(s) == LET d == LastDot(s, Len(s))
                IN  IF d = 0 THEN <<>> ELSE SubSeq(s, d + 1, Len(s))

(***************************************************************************)
(* Encodings: bincode (fixed-width little-endian integers, length-prefixed *)
(* strings and slices), zstd (modelled as a run-length code under the zstd *)
(* frame magic)                                                            *)
(***************************************************************************)
RECURSIVE ByteOf(_, _)
\* byte i of n, least significant first
ByteOf(n, i) == IF i = 1 THEN n % 256 ELSE ByteOf(n \div 256, i - 1)

U64LE(n) == [i \in 1..8 |-> ByteOf(n, i)]
U32LE(n) == [i \in 1..4 |-> ByteOf(n, i)]

\* bincode of a String / str
SerializeStr(s) == U64LE(Len(s)) \o s

\* bincode of a SystemTime: seconds and nanoseconds since the epoch
SerializeTime(mtime) == U64LE(mtime) \o U32LE(0)

\* bincode of a &[String]
SerializeStrs(ss) == U64LE(Len(ss)) \o Concat([i \in 1..Len(ss) |-> SerializeStr(ss[i])])

ZstdMagic == <<40, 181, 47, 253>>

RECURSIVE RunLength(_)
RunLength(s) ==
    IF s = <<>> THEN <<>>
    ELSE LET r == RunLength(Tail(s))
         IN  IF r # <<>> /\ r[1] = Head(s)
             THEN <<r[1], r[2] + 1>> \o SubSeq(r, 3, Len(r))
             ELSE <<Head(s), 1>> \o r

RECURSIVE Expand(_)
Expand(r) ==
    IF Len(r) < 2 THEN <<>>
    ELSE [i \in 1..r[2] |-> r[1]] \o Expand(SubSeq(r, 3, Len(r)))

\* zstd stream encoder, finished
Compress(raw, level) == ZstdMagic \o RunLength(raw)

\* zstd::stream::copy_decode
copy_decode(blob) == Expand(SubSeq(blob, Len(ZstdMagic) + 1, Len(blob)))

(***************************************************************************)
(* Adapters known to the program and the matcher built over them           *)
(***************************************************************************)
NameTar     == <<116, 97, 114>>
NamePoppler == <<112, 111, 112, 112, 108, 101, 114>>
ExtPdf      == <<112, 100, 102>>

AdapterTar     == [name |-> NameTar, version |-> 1, recurses |-> TRUE,
                   extensions |-> {NameTar}, mimetypes |-> {"application/x-tar"}]
AdapterPoppler == [name |-> NamePoppler, version |-> 1, recurses |-> FALSE,
                   extensions |-> {ExtPdf}, mimetypes |-> {"application/pdf"}]

AllAdapters == {AdapterTar, AdapterPoppler}

\* the adapter of name n as the running build carries it: ver gives the
\* version each adapter has reached
AdapterNamed(n, ver) ==
    LET a == CHOOSE b \in AllAdapters : b.name = n
    IN  [a EXCEPT !.version = ver[n]]

\* get_adapters_filtered: the enabled adapters in the order of the name list;
\* a name no adapter carries is an error
get_adapters_filtered(names, ver) ==
    IF \E i \in 1..Len(names) : \A a \in AllAdapters : a.name # names[i]
    THEN None
    ELSE Some([i \in 1..Len(names) |-> AdapterNamed(names[i], ver)])

\* tree_magic::from_u8 on the peeked prefix
from_u8(buf) ==
    IF buf # <<>> /\ buf[1] = 117 THEN "application/x-tar"
    ELSE IF buf # <<>> /\ buf[1] = 37 THEN "application/pdf"
    ELSE "text/plain"

\* does adapter a match the file: by sniffed type in accurate mode, by
\* extension otherwise
Matches(a, meta) ==
    IF IsSome(meta.mimetype)
    THEN Unwrap(meta.mimetype) \in a.mimetypes
    ELSE Extension(meta.lossy_filename) \in a.extensions

\* adapter_matcher(enabled, accurate)(meta): the first enabled adapter that
\* matches, if any
adapter_matcher(enabled, meta) ==
    LET hits == SelectSeq(enabled, LAMBDA a : Matches(a, meta))
    IN  IF hits = <<>> THEN None ELSE Some(hits[1])

\* spawning::postproc_line_prefix: every line of the input, prefixed and
\* newline-terminated
RECURSIVE postproc_line_prefix(_, _)
postproc_line_prefix(line_prefix, inp) ==
    IF inp = <<>> THEN <<>>
    ELSE LET nl == CHOOSE i \in 1..(Len(inp) + 1) :
                      /\ (i = Len(inp) + 1 \/ inp[i] = 10)
                      /\ \A j \in 1..(i - 1) : inp[j] # 10
         IN  line_prefix \o SubSeq(inp, 1, nl - 1) \o <<10>>
             \o postproc_line_prefix(line_prefix, SubSeq(inp, nl + 1, Len(inp)))

(***************************************************************************)
(* The pieces of rga_preproc                                               *)
(***************************************************************************)
Min(a, b) == IF a < b THEN a ELSE b

\* "[rga: max archive recursion reached]"
MarkerText == <<91, 114, 103, 97, 58, 32, 109, 97, 120, 32, 97, 114, 99, 104, 105,
                118, 101, 32, 114, 101, 99, 117, 114, 115, 105, 111, 110, 32, 114,
                101, 97, 99, 104, 101, 100, 93>>

\* writeln!(oup, "{}[rga: max archive recursion reached]", line_prefix)
MarkerLine(line_prefix) == line_prefix \o MarkerText \o <<10>>

\* archive_recursion_depth >= args.max_archive_recursion.0
DepthGuard(ai) == ai.archive_recursion_depth >= ai.config.args.max_archive_recursion

\* BufReader::fill_buf: the buffered prefix of the input, nothing consumed
fill_buf(inp) == SubSeq(inp, 1, Min(Len(inp), BufReaderCapacity))

\* variant of the peek that consumes what it has looked at
Sniff_consuming(ai) ==
    IF ai.config.args.accurate
    THEN [buf |-> fill_buf(ai.inp), pos |-> Len(fill_buf(ai.inp)),
          inner |-> SubSeq(ai.inp, Len(fill_buf(ai.inp)) + 1, Len(ai.inp))]
    ELSE [buf |-> <<>>, pos |-> 0, inner |-> ai.inp]

\* the BufReader around inp after the mimetype step: in accurate mode its
\* buffer is filled and its read position is still at the start, otherwise
\* nothing has been read from inp
Sniff(ai) ==
    IF ai.config.args.accurate
    THEN [buf |-> fill_buf(ai.inp), pos |-> 0,
          inner |-> SubSeq(ai.inp, Len(fill_buf(ai.inp)) + 1, Len(ai.inp))]
    ELSE [buf |-> <<>>, pos |-> 0, inner |-> ai.inp]

\* what reading the BufReader to its end yields: the unread part of the
\* buffer, then the rest of the underlying stream
ReadAll(r) == SubSeq(r.buf, r.pos + 1, Len(r.buf)) \o r.inner

\* the sniffed type, only in accurate mode
Mimetype(ai) == IF ai.config.args.accurate THEN Some(from_u8(fill_buf(ai.inp))) ELSE None

\* variants of allow_cat with the condition written wrongly
AllowCat_and(ai) == (~ai.is_real_file) /\ ai.config.args.accurate
AllowCat_always(ai) == TRUE

\* allow_cat = !is_real_file || args.accurate
AllowCat(ai) == (~ai.is_real_file) \/ ai.config.args.accurate

\* variant of the namespace that leaves the version out
db_name_without_version(meta) == meta.name

\* format!("{}.v{}", meta.name, meta.version)
db_name(meta) == meta.name \o <<46, 118>> \o Digits(meta.version)

\* std::fs::metadata(&filepath_hint)?.modified()
metadata(fsys, path) ==
    IF clean(path) \in DOMAIN fsys THEN Some(fsys[clean(path)]) ELSE None

\* variants of the key that leave a component out
cache_key_without_mtime(ai, adapter, mtime) ==
    IF adapter.recurses
    THEN SerializeStr(JoinPath(clean(ai.filepath_hint)))
         \o SerializeStrs(ai.config.args.adapters)
    ELSE SerializeStr(JoinPath(clean(ai.filepath_hint)))
cache_key_without_adapters(ai, adapter, mtime) ==
    SerializeStr(JoinPath(clean(ai.filepath_hint))) \o SerializeTime(mtime)

\* bincode::serialize of (clean_path, mtime, &args.adapters[..]) for a recursing
\* adapter, of (clean_path, mtime) otherwise
cache_key(ai, adapter, mtime) ==
    IF adapter.recurses
    THEN SerializeStr(JoinPath(clean(ai.filepath_hint))) \o SerializeTime(mtime)
         \o SerializeStrs(ai.config.args.adapters)
    ELSE SerializeStr(JoinPath(clean(ai.filepath_hint))) \o SerializeTime(mtime)

\* if let Some(cache) = cache.as_mut()
UseCache(config) == config.cache

\* variant that passes the caller's cache handle on
AdapterConfig_keeps_cache(config) == config

\* PreprocConfig { cache: None, args } handed to the adapter
AdapterConfig(config) == [cache |-> FALSE, args |-> config.args]

\* variant with the two arguments of CachingWriter::new swapped
SinkCap_swapped(args) == args.cache_compression_level

\* the arguments of CachingWriter::new
SinkCap(args) == args.cache_max_blob_len
SinkLevel(args) == args.cache_compression_level

\* rga_preproc from its entry to the point where it returns, calls the adapter
\* or asks for the cache lock. wrote: what it has written to oup by then.
Enter(ai, fsys, ver) ==
    LET args == ai.config.args
        base == [ai |-> ai, pc |-> "done", res |-> "Ok", arm |-> "early",
                 wrote |-> <<>>, adapter |-> None, handed |-> None, reader |-> None,
                 db_name |-> <<>>, cache_key |-> <<>>, compbuf |-> None,
                 \* bookkeeping for the properties below
                 id |-> 0, overlaps |-> {}, seen_mtime |-> metadata(fsys, ai.filepath_hint),
                 ran |-> 0, steps |-> 0, hit |-> FALSE, stored |-> FALSE,
                 adapter_wrote |-> <<>>, adapt_failed |-> FALSE,
                 prior |-> None, child |-> None]
        enabled == get_adapters_filtered(args.adapters, ver)
        filename == file_name(ai.filepath_hint)
    IN
    IF ~IsSome(enabled) THEN [base EXCEPT !.res = "ErrAdapters"]
    ELSE IF ~IsSome(filename) THEN [base EXCEPT !.res = "ErrEmptyFilename"]
    ELSE IF DepthGuard(ai)
         THEN [base EXCEPT !.arm = "guard", !.wrote = MarkerLine(ai.line_prefix)]
    ELSE
    LET meta == [mimetype |-> Mimetype(ai),
                 lossy_filename |-> to_string_lossy(Unwrap(filename))]
        adapter == adapter_matcher(Unwrap(enabled), meta)
    IN
    IF IsSome(adapter)
    THEN LET a == Unwrap(adapter)
             sel == [base EXCEPT !.arm = "some", !.adapter = adapter,
                                 !.reader = Some(Sniff(ai)),
                                 !.db_name = db_name(a)]
         IN  IF UseCache(ai.config)
             THEN LET mt == metadata(fsys, ai.filepath_hint)
                  IN  IF ~IsSome(mt) THEN [sel EXCEPT !.res = "ErrMetadata"]
                      ELSE [sel EXCEPT !.pc = "lock", !.res = "Pending",
                                       !.cache_key = cache_key(ai, a, Unwrap(mt))]
             ELSE [sel EXCEPT !.pc = "adapting", !.res = "Pending", !.ran = 1,
                              !.handed = Some(AdapterConfig(ai.config))]
    ELSE IF AllowCat(ai)
         THEN [base EXCEPT !.arm = "none", !.reader = Some(Sniff(ai)),
                           !.wrote = postproc_line_prefix(ai.line_prefix,
                                                          ReadAll(Sniff(ai)))]
         ELSE [base EXCEPT !.arm = "none", !.reader = Some(Sniff(ai)),
                           !.res = "ErrNoAdapter"]

(***************************************************************************)
(* The writers between an adapter and the output stream                    *)
(***************************************************************************)
\* BufWriter::write_all: flush when the bytes do not fit, write through when
\* they are as large as the buffer
BufWriter_write(buf, bytes) ==
    LET flushed == IF Len(buf) + Len(bytes) > BufWriterCapacity THEN buf ELSE <<>>
        kept    == IF Len(buf) + Len(bytes) > BufWriterCapacity THEN <<>> ELSE buf
    IN  IF Len(bytes) >= BufWriterCapacity
        THEN [buf |-> kept, fwd |-> flushed \o bytes]
        ELSE [buf |-> kept \o bytes, fwd |-> flushed]

\* CachingWriter::write: every byte goes downstream; the copy is kept while it
\* stays within the cap
CachingWriter_write(cw, bytes) ==
    IF cw.over \/ Len(cw.raw) + Len(bytes) > cw.cap
    THEN [cw EXCEPT !.over = TRUE, !.raw = <<>>]
    ELSE [cw EXCEPT !.raw = cw.raw \o bytes]

\* CachingWriter::finish: nothing to cache when the cap was exceeded, else the
\* finished compressed copy, or the encoder's error
CachingWriter_finish(cw, finish_ok) ==
    IF cw.over THEN <<"Ok", None>>
    ELSE IF ~finish_ok THEN <<"Err", "ErrFinish">>
    ELSE <<"Ok", Some(Compress(cw.raw, cw.level))>>

\* BufWriter::new(CachingWriter::new(oup, cap, level))
NewCompbuf(args) ==
    [buf |-> <<>>, raw |-> <<>>, over |-> FALSE,
     cap |-> SinkCap(args), level |-> SinkLevel(args)]

\* a write to compbuf: what stays in the two writers, what reaches oup
Compbuf_write(cb, bytes) ==
    LET b == BufWriter_write(cb.buf, bytes)
        c == CachingWriter_write(cb, b.fwd)
    IN  [cb |-> [c EXCEPT !.buf = b.buf], fwd |-> b.fwd]

\* variant that loses what the BufWriter still holds
Compbuf_flush_discards(cb) == [cb |-> [cb EXCEPT !.buf = <<>>], fwd |-> <<>>]

\* BufWriter::into_inner and BufWriter's drop: the buffer is written out
Compbuf_flush(cb) ==
    LET c == CachingWriter_write(cb, cb.buf)
    IN  [cb |-> [c EXCEPT !.buf = <<>>], fwd |-> cb.buf]

RECURSIVE WriteOup(_, _, _, _)
RECURSIVE WriteAdapterOup(_, _, _, _)
\* a write to the oup of the invocation in frame k: the real output stream for
\* the top-level invocation, the oup of the calling adapter otherwise
WriteOup(stk, k, bytes, o) ==
    LET s1 == [stk EXCEPT ![k].wrote = stk[k].wrote \o bytes]
    IN  IF k = 1 THEN [stk |-> s1, out |-> o \o bytes]
        ELSE WriteAdapterOup(s1, k - 1, bytes, o)

\* a write to the oup handed to the adapter of frame k: compbuf on the cached
\* path, the invocation's own oup otherwise
WriteAdapterOup(stk, k, bytes, o) ==
    LET s1 == [stk EXCEPT ![k].adapter_wrote = stk[k].adapter_wrote \o bytes]
    IN  IF IsSome(stk[k].compbuf)
        THEN LET w == Compbuf_write(Unwrap(stk[k].compbuf), bytes)
             IN  WriteOup([s1 EXCEPT ![k].compbuf = Some(w.cb)], k, w.fwd, o)
        ELSE WriteOup(s1, k, bytes, o)

\* the decode closure: where the decompressed blob goes
decode(cached) == [to_stdout |-> copy_decode(cached), to_oup |-> <<>>]

\* variant that drops the adapter's error instead of returning it
compute_result_ignoring_failure(adapt_ok, finish_ok, cw) ==
    CachingWriter_finish(cw, finish_ok)

\* the end of the compute closure, after adapter.adapt has returned:
\* Err on a failed adapter, else what finish yields
compute_result(adapt_ok, finish_ok, cw) ==
    IF ~adapt_ok THEN <<"Err", "ErrAdaptCached">>
    ELSE CachingWriter_finish(cw, finish_ok)

\* variant that asks the cache again after an error
AfterAdapt_retries(res) == IF res = "Ok" THEN "done" ELSE "lock"

\* get_or_run(..)? and adapt(..)? followed by Ok(()): whatever the result is,
\* rga_preproc returns it
AfterAdapt(res) == "done"

\* variant that never finds an entry
get_or_run_hits_never(st, ns, key) == FALSE

\* get_or_run: decode on a hit, compute on a miss
get_or_run_hits(st, ns, key) == <<ns, key>> \in DOMAIN st

\* get_or_run after compute: Some(bytes) is persisted under (namespace, key)
get_or_run_persist(st, ns, key, computed) ==
    IF computed[1] = "Ok" /\ IsSome(computed[2])
    THEN (<<ns, key>> :> Unwrap(computed[2])) @@ st
    ELSE st

(***************************************************************************)
(* State                                                                   *)
(***************************************************************************)
Str_a_tar == <<97, 46, 116, 97, 114>>
Str_x_pdf == <<120, 46, 112, 100, 102>>
Str_c_bin == <<99, 46, 98, 105, 110>>
Str_b_txt == <<98, 46, 116, 120, 116>>
Str_i_tar == <<105, 46, 116, 97, 114>>

\* the files that exist on disk
Files == {<<Str_a_tar>>, <<Str_x_pdf>>}

TopPaths == {<<Str_a_tar>>, <<Str_x_pdf>>, <<Dot, Str_x_pdf>>, <<Str_a_tar, Str_x_pdf>>,
             <<Str_c_bin>>, <<DotDot>>}

\* the bytes behind a path: a tar header, a PDF header, two lines of text
ContentOf(path) ==
    IF path = <<DotDot>> THEN <<>>
    ELSE IF Extension(path[Len(path)]) = NameTar THEN <<117>>
    ELSE IF Extension(path[Len(path)]) = ExtPdf THEN <<37>>
    ELSE <<104, 10, 105>>

LinePrefixes == {<<62>>}

AdapterLists == {<<NameTar, NamePoppler>>, <<NamePoppler, NameTar>>}

\* archive members a recursing adapter may hand back to rga_preproc: a text
\* file, an inner archive, an entry whose name ends in ".."
Members == {[path |-> <<Str_b_txt>>, inp |-> <<104>>],
            [path |-> <<Str_i_tar>>, inp |-> <<117>>],
            [path |-> <<DotDot>>, inp |-> <<>>]}

\* what an adapter writes in one go
Chunks == {<<120>>, <<121, 121>>}

ArgsSet == [accurate : BOOLEAN, adapters : AdapterLists,
            max_archive_recursion : {MaxArchiveRecursion},
            cache_max_blob_len : {CacheMaxBlobLen},
            cache_compression_level : {CacheCompressionLevel}]

TopInvocations ==
    {[filepath_hint |-> p, is_real_file |-> r, inp |-> ContentOf(p),
      line_prefix |-> l, archive_recursion_depth |-> d,
      config |-> [cache |-> c, args |-> a]] :
        p \in TopPaths, r \in BOOLEAN, l \in LinePrefixes,
        d \in {0, MaxArchiveRecursion}, c \in BOOLEAN, a \in ArgsSet}

\* the invocations two threads make at the same time over one cache handle
ConcInvocations ==
    {[filepath_hint |-> p, is_real_file |-> TRUE, inp |-> ContentOf(p),
      line_prefix |-> l, archive_recursion_depth |-> 0,
      config |-> [cache |-> c, args |-> a]] :
        p \in {<<Str_a_tar>>, <<Str_x_pdf>>}, l \in LinePrefixes, c \in BOOLEAN,
        a \in {b \in ArgsSet : ~b.accurate /\ b.adapters = <<NameTar, NamePoppler>>}}

Init ==
    /\ stack = [t \in Threads |-> <<>>]
    /\ out = [t \in Threads |-> <<>>]
    /\ stdout = [t \in Threads |-> <<>>]
    /\ store = <<>>
    /\ history = <<>>
    /\ fs = [f \in Files |-> 1]
    /\ versions = [a \in {b.name : b \in AllAdapters} |-> 1]
    /\ lock = 0
    /\ calls = 0
    /\ procs = {1}

\* the same with every thread making invocations
InitConc ==
    /\ stack = [t \in Threads |-> <<>>]
    /\ out = [t \in Threads |-> <<>>]
    /\ stdout = [t \in Threads |-> <<>>]
    /\ store = <<>>
    /\ history = <<>>
    /\ fs = [f \in Files |-> 1]
    /\ versions = [a \in {b.name : b \in AllAdapters} |-> 1]
    /\ lock = 0
    /\ calls = 0
    /\ procs = Threads

\* the invocations a behaviour draws from
Invocations == IF procs = Threads THEN ConcInvocations ELSE TopInvocations

Top(t) == stack[t][Len(stack[t])]
Idle(t) == stack[t] = <<>>
Done(t) == Len(stack[t]) = 1 /\ stack[t][1].pc = "done"

\* what the caller of a nested invocation keeps of it
Summary(f) == Some([f EXCEPT !.child = None])

\* the invocation in the top frame has returned: a nested one goes back to
\* the adapter that called it
Returned(stk, f) ==
    IF Len(stk) = 1 THEN <<f>>
    ELSE [SubSeq(stk, 1, Len(stk) - 1) EXCEPT ![Len(stk) - 1].child = Summary(f)]

(***************************************************************************)
(* Actions                                                                 *)
(***************************************************************************)
\* a caller invokes rga_preproc(ai) on thread t
Invoke(t, ai) ==
    /\ t \in procs
    /\ Idle(t)
    /\ calls < MaxCalls
    /\ LET f == Enter(ai, fs, versions)
           running == {stack[u][1].id : u \in {v \in Threads : stack[v] # <<>> /\ ~Done(v)}}
       IN  /\ stack' = [stack EXCEPT ![t] =
                          <<[f EXCEPT !.id = calls + 1, !.overlaps = running]>>]
           /\ out' = [out EXCEPT ![t] = f.wrote]
    /\ calls' = calls + 1
    /\ UNCHANGED <<stdout, store, history, fs, versions, lock, procs>>

\* the last attempt to compute the entry of (ns, key), if there was one
Prior(ns, key) ==
    IF <<ns, key>> \in DOMAIN history THEN Some(history[<<ns, key>>]) ELSE None

\* cache.write() returns: no other invocation holds the lock of the handle
Acquirable(t) == lock = 0

\* variant that keeps the lock when get_or_run returns an error
Unlocked_only_on_ok(t, res) == IF res = "Ok" THEN 0 ELSE t

\* the guard of cache.write() is a temporary of the get_or_run statement: it
\* is dropped when the statement ends, also when `?` returns the error
Unlocked(t, res) == 0

\* cache.write().unwrap().get_or_run(..) finds the key: the decode closure runs
CacheHit(t) ==
    /\ t \in procs
    /\ stack[t] # <<>>
    /\ Top(t).pc = "lock"
    /\ Acquirable(t)
    /\ get_or_run_hits(store, Top(t).db_name, Top(t).cache_key)
    /\ LET k == Len(stack[t])
           d == decode(store[<<Top(t).db_name, Top(t).cache_key>>])
           w == WriteOup(stack[t], k, d.to_oup, out[t])
           f == [w.stk[k] EXCEPT !.pc = "done", !.res = "Ok", !.hit = TRUE,
                                 !.prior = Prior(Top(t).db_name, Top(t).cache_key)]
       IN  /\ stack' = [stack EXCEPT ![t] = Returned(w.stk, f)]
           /\ out' = [out EXCEPT ![t] = w.out]
           /\ stdout' = [stdout EXCEPT ![t] = stdout[t] \o d.to_stdout]
    /\ UNCHANGED <<store, history, fs, versions, lock, calls, procs>>

\* get_or_run does not find the key: the compute closure starts, the write
\* lock stays held while the adapter runs
CacheMiss(t) ==
    /\ t \in procs
    /\ stack[t] # <<>>
    /\ Top(t).pc = "lock"
    /\ Acquirable(t)
    /\ ~get_or_run_hits(store, Top(t).db_name, Top(t).cache_key)
    /\ lock' = t
    /\ stack' = [stack EXCEPT ![t][Len(stack[t])] =
                   [@ EXCEPT !.pc = "adapting", !.ran = @ + 1,
                             !.compbuf = Some(NewCompbuf(Top(t).ai.config.args)),
                             !.handed = Some(AdapterConfig(Top(t).ai.config)),
                             !.prior = Prior(Top(t).db_name, Top(t).cache_key)]]
    /\ UNCHANGED <<out, stdout, store, history, fs, versions, calls, procs>>

\* the running adapter writes to the oup it was handed
AdapterWrite(t, chunk) ==
    /\ t \in procs
    /\ stack[t] # <<>>
    /\ Top(t).pc = "adapting"
    /\ stack[t][1].steps < MaxAdapterSteps
    /\ LET k == Len(stack[t])
           w == WriteAdapterOup(stack[t], k, chunk, out[t])
       IN  /\ stack' = [stack EXCEPT ![t] = [w.stk EXCEPT ![1].steps = @ + 1]]
           /\ out' = [out EXCEPT ![t] = w.out]
    /\ UNCHANGED <<stdout, store, history, fs, versions, lock, calls, procs>>

\* the running adapter, a recursing one, calls rga_preproc for a member with
\* the configuration it was handed and the depth raised by one; the member's
\* output goes to the adapter's oup
AdapterRecurse(t, m) ==
    /\ t \in procs
    /\ stack[t] # <<>>
    /\ Top(t).pc = "adapting"
    /\ Unwrap(Top(t).adapter).recurses
    /\ stack[t][1].steps < MaxAdapterSteps
    /\ LET k == Len(stack[t])
           p == Top(t)
           ai == [filepath_hint |-> p.ai.filepath_hint \o m.path,
                  is_real_file |-> FALSE, inp |-> m.inp,
                  line_prefix |-> p.ai.line_prefix,
                  archive_recursion_depth |-> p.ai.archive_recursion_depth + 1,
                  config |-> Unwrap(p.handed)]
           f == Enter(ai, fs, versions)
           s1 == Append([stack[t] EXCEPT ![1].steps = @ + 1, ![k].child = None],
                        [f EXCEPT !.wrote = <<>>, !.id = stack[t][1].id])
           w == WriteOup(s1, k + 1, f.wrote, out[t])
       IN  /\ stack' = [stack EXCEPT ![t] =
                          IF f.pc = "done" THEN Returned(w.stk, w.stk[k + 1])
                          ELSE w.stk]
           /\ out' = [out EXCEPT ![t] = w.out]
    /\ UNCHANGED <<stdout, store, history, fs, versions, lock, calls, procs>>

\* what is remembered of an attempt to compute a cache entry
Attempt(f, k, computed) ==
    IF computed[1] = "Ok" /\ IsSome(computed[2])
    THEN [outcome |-> "stored", call |-> f.id, level |-> k,
          path |-> clean(f.ai.filepath_hint), mtime |-> f.seen_mtime,
          adapter |-> Unwrap(f.adapter), adapters |-> f.ai.config.args.adapters,
          delivered |-> f.wrote, blob |-> Unwrap(computed[2])]
    ELSE [outcome |-> IF computed[1] = "Ok" THEN "overflow" ELSE "failed",
          call |-> f.id, level |-> k, path |-> clean(f.ai.filepath_hint)]

\* adapter.adapt returns; on the cached path the compute closure ends,
\* get_or_run persists what it yields and the write lock is released
AdaptReturns(t, adapt_ok, finish_ok) ==
    /\ t \in procs
    /\ stack[t] # <<>>
    /\ Top(t).pc = "adapting"
    /\ LET k == Len(stack[t])
           p == Top(t)
       IN  IF IsSome(p.compbuf)
           THEN LET fl == Compbuf_flush(Unwrap(p.compbuf))
                    w == WriteOup(stack[t], k, fl.fwd, out[t])
                    computed == compute_result(adapt_ok, finish_ok, fl.cb)
                    st == get_or_run_persist(store, p.db_name, p.cache_key, computed)
                    res == IF computed[1] = "Ok" THEN "Ok" ELSE computed[2]
                    f == [w.stk[k] EXCEPT !.pc = AfterAdapt(res), !.compbuf = None,
                             !.res = res,
                             !.adapt_failed = ~adapt_ok,
                             !.stored = (st # store)]
                IN  /\ stack' = [stack EXCEPT ![t] = Returned(w.stk, f)]
                    /\ out' = [out EXCEPT ![t] = w.out]
                    /\ store' = st
                    /\ history' = (<<p.db_name, p.cache_key>> :> Attempt(f, k, computed))
                                    @@ history
                    /\ lock' = Unlocked(t, res)
           ELSE /\ finish_ok
                /\ stack' = [stack EXCEPT ![t] = Returned(stack[t],
                               [p EXCEPT !.adapt_failed = ~adapt_ok,
                                  !.pc = AfterAdapt(IF adapt_ok THEN "Ok"
                                                    ELSE "ErrAdaptUncached"),
                                  !.res = IF adapt_ok THEN "Ok" ELSE "ErrAdaptUncached"])]
                /\ UNCHANGED <<out, store, history, lock>>
    /\ UNCHANGED <<stdout, fs, versions, calls, procs>>

\* rga_preproc has returned to its caller, which drops the invocation's streams
Collect(t) ==
    /\ t \in procs
    /\ Done(t)
    /\ stack' = [stack EXCEPT ![t] = <<>>]
    /\ out' = [out EXCEPT ![t] = <<>>]
    /\ stdout' = [stdout EXCEPT ![t] = <<>>]
    /\ UNCHANGED <<store, history, fs, versions, lock, calls, procs>>

\* a file is modified between two invocations: its modification time changes.
\* (A change during an invocation commutes with every step after the metadata
\* call; a change to a file never processed before is a renaming of times.)
Touch(p, m) ==
    /\ \A t \in procs : Idle(t)
    /\ calls < MaxCalls
    /\ p \in DOMAIN fs
    /\ \E nk \in DOMAIN history : history[nk].path = p
    /\ m # fs[p]
    /\ fs' = [fs EXCEPT ![p] = m]
    /\ UNCHANGED <<stack, out, stdout, store, history, versions, lock, calls, procs>>

\* the program is rebuilt between two invocations with a new version of
\* adapter n, one that has computed entries before
Upgrade(n) ==
    /\ \A t \in procs : Idle(t)
    /\ calls < MaxCalls
    /\ versions[n] < MaxVersion
    /\ \E nk \in DOMAIN history : nk[1] = db_name(AdapterNamed(n, versions))
    /\ versions' = [versions EXCEPT ![n] = @ + 1]
    /\ UNCHANGED <<stack, out, stdout, store, history, fs, lock, calls, procs>>

Next ==
    \/ \E t \in Threads, ai \in Invocations : Invoke(t, ai)
    \/ \E t \in Threads : CacheHit(t)
    \/ \E t \in Threads : CacheMiss(t)
    \/ \E t \in Threads, c \in Chunks : AdapterWrite(t, c)
    \/ \E t \in Threads, m \in Members : AdapterRecurse(t, m)
    \/ \E t \in Threads, a \in BOOLEAN, f \in BOOLEAN : AdaptReturns(t, a, f)
    \/ \E t \in Threads : Collect(t)
    \/ \E p \in Files, m \in 1..MaxMtime : Touch(p, m)
    \/ \E n \in DOMAIN versions : Upgrade(n)

Spec == Init /\ [][Next]_vars

SpecConc == InitConc /\ [][Next]_vars

(***************************************************************************)
(* Properties                                                              *)
(***************************************************************************)
\* the invocations of thread t that have returned and are still on record:
\* the top-level one, and the last nested one each running adapter has made
ReturnedInvs(t) ==
    (IF Done(t) THEN {stack[t][1]} ELSE {})
    \cup {Unwrap(stack[t][k].child) :
            k \in {j \in 1..Len(stack[t]) : IsSome(stack[t][j].child)}}

\* the top-level invocations that have returned
DoneTop == {stack[t][1] : t \in {u \in Threads : Done(u)}}

\* the invocation went through get_or_run
AskedCache(f) == f.hit \/ (f.ran > 0 /\ UseCache(f.ai.config))

\* C1 (as claimed): every invocation at or beyond the recursion limit returns
\* success having written exactly the marker line, whatever its path is
C1_MarkerWhateverThePath ==
    \A t \in Threads : \A r \in ReturnedInvs(t) :
        DepthGuard(r.ai) =>
            /\ r.res = "Ok"
            /\ r.wrote = MarkerLine(r.ai.line_prefix)
            /\ r.ran = 0 /\ ~r.hit /\ ~r.stored

\* C2 (as claimed): an invocation that replays an entry delivers on its own
\* output stream the bytes the storing invocation delivered on its own
C2_ReplayOnOwnStream ==
    \A t \in Threads :
        (Done(t) /\ stack[t][1].hit) =>
            out[t] = Unwrap(stack[t][1].prior).delivered

\* the key under which invocation f asked the cache
KeyOf(f) == <<f.db_name, f.cache_key>>

\* the entries stored before invocation f for the same file and adapter
EarlierEntries(f) ==
    {nk \in DOMAIN history :
        /\ history[nk].outcome = "stored"
        /\ history[nk].call < f.id
        /\ history[nk].path = clean(f.ai.filepath_hint)
        /\ history[nk].adapter = Unwrap(f.adapter)}

\* C3: an invocation that derives the namespace and key of a stored entry
\* returns without having run the adapter and leaves the entry as it was
C3_HitSkipsAdapter ==
    \A t \in Threads : \A f \in ReturnedInvs(t) :
        (AskedCache(f) /\ IsSome(f.prior) /\ Unwrap(f.prior).outcome = "stored") =>
            /\ f.ran = 0
            /\ f.res = "Ok"
            /\ ~f.stored
            /\ KeyOf(f) \in DOMAIN store
            /\ store[KeyOf(f)] = Unwrap(f.prior).blob
            /\ history[KeyOf(f)] = Unwrap(f.prior)

C3_Witness ==
    \E f \in DoneTop :
        /\ f.hit /\ f.ran = 0
        /\ Unwrap(f.prior).outcome = "stored"
        /\ Unwrap(f.prior).call < f.id
        /\ Unwrap(f.prior).delivered # <<>>

\* C4: an entry stored for a file is found again exactly under the
\* modification time it was stored for: with another mtime the key differs,
\* the invocation misses and runs the adapter; with the same path, mtime and
\* adapter list the key is the same
C4_MtimeInvalidates ==
    \A f \in DoneTop :
        AskedCache(f) =>
            /\ \A nk \in EarlierEntries(f) :
                  history[nk].adapters = f.ai.config.args.adapters =>
                      ((history[nk].mtime = f.seen_mtime) <=> (nk = KeyOf(f)))
            /\ f.hit => /\ Unwrap(f.prior).mtime = f.seen_mtime
                        /\ Unwrap(f.prior).path = clean(f.ai.filepath_hint)
            /\ (\A nk \in EarlierEntries(f) : history[nk].mtime # f.seen_mtime)
                  => (~f.hit /\ f.ran = 1)

C4_Witness ==
    \E f \in DoneTop :
        /\ AskedCache(f) /\ ~f.hit /\ f.ran = 1
        /\ \E nk \in EarlierEntries(f) :
              /\ history[nk].adapters = f.ai.config.args.adapters
              /\ history[nk].mtime # f.seen_mtime
              /\ nk \in DOMAIN store

\* C5: the list of enabled adapters is part of the key exactly for a
\* recursing adapter: a non-recursing adapter finds its entry again under any
\* list, a recursing one only under the list the entry was stored with
C5_AdapterListInKeyIffRecurses ==
    \A f \in DoneTop :
        AskedCache(f) =>
            LET same == {nk \in EarlierEntries(f) : history[nk].mtime = f.seen_mtime}
            IN  IF Unwrap(f.adapter).recurses
                THEN /\ \A nk \in same :
                          (nk = KeyOf(f)) <=>
                              (history[nk].adapters = f.ai.config.args.adapters)
                     /\ (\A nk \in same :
                            history[nk].adapters # f.ai.config.args.adapters)
                          => (~f.hit /\ f.ran = 1)
                ELSE \A nk \in same : nk = KeyOf(f) /\ f.hit /\ f.ran = 0

C5_Witness ==
    \E f \in DoneTop :
        /\ AskedCache(f) /\ Unwrap(f.adapter).recurses
        /\ ~f.hit /\ f.ran = 1
        /\ \E nk \in EarlierEntries(f) :
              /\ history[nk].mtime = f.seen_mtime
              /\ history[nk].adapters # f.ai.config.args.adapters

\* C6: when the adapter has written more than cache_max_blob_len and returned,
\* the invocation succeeds, its output stream holds all the adapter wrote, no
\* entry exists for the key, and an invocation that asks for the key after an
\* overflow misses and runs the adapter
C6_OverflowNotCached ==
    \A t \in Threads :
        Done(t) =>
            LET f == stack[t][1]
            IN  /\ (/\ UseCache(f.ai.config) /\ f.ran = 1 /\ ~f.adapt_failed
                    /\ Len(f.adapter_wrote) > f.ai.config.args.cache_max_blob_len)
                      => /\ f.res = "Ok"
                         /\ out[t] = f.adapter_wrote
                         /\ ~f.stored
                         /\ KeyOf(f) \notin DOMAIN store
                         /\ history[KeyOf(f)].outcome = "overflow"
                /\ (AskedCache(f) /\ IsSome(f.prior)
                    /\ Unwrap(f.prior).outcome = "overflow")
                      => (~f.hit /\ f.ran = 1)

C6_Witness ==
    \E t \in Threads :
        /\ Done(t)
        /\ IsSome(stack[t][1].prior)
        /\ Unwrap(stack[t][1].prior).outcome = "overflow"
        /\ stack[t][1].ran = 1
        /\ Len(stack[t][1].adapter_wrote) > stack[t][1].ai.config.args.cache_max_blob_len
        /\ out[t] = stack[t][1].adapter_wrote
        /\ stack[t][1].res = "Ok"

\* the bytes of a stream that are neither a newline nor the line prefix '>'
Payload(bytes) == SelectSeq(bytes, LAMBDA b : b # 10 /\ b # 62)

\* C7: in the no-adapter arm the input is passed through exactly when the
\* invocation is not a real file or accurate matching is on; then the call
\* succeeds and the output is every input line, prefixed
C7_PassthroughPolicy ==
    \A t \in Threads : \A r \in ReturnedInvs(t) :
        r.arm = "none" =>
            /\ (r.res = "Ok") <=> (~r.ai.is_real_file \/ r.ai.config.args.accurate)
            /\ r.res = "Ok" =>
                  /\ r.wrote = postproc_line_prefix(r.ai.line_prefix, r.ai.inp)
                  /\ Payload(r.wrote) = Payload(r.ai.inp)
                  /\ (r.ai.inp # <<>> => r.wrote # <<>>)
                  /\ (r \in DoneTop => out[t] = r.wrote)
            /\ r.ran = 0

C7_Witness ==
    \E t \in Threads : \E r \in ReturnedInvs(t) :
        /\ r.arm = "none" /\ ~r.ai.is_real_file /\ ~r.ai.config.args.accurate
        /\ r.res = "Ok"
        /\ r.wrote = <<62, 104, 10, 62, 105, 10>>
        /\ r.ai.inp = <<104, 10, 105>>

\* C8: in the no-adapter arm, for a real file without accurate matching, the
\* call returns the error, has written nothing and has not asked the cache
C8_NoAdapterError ==
    \A t \in Threads : \A r \in ReturnedInvs(t) :
        (r.arm = "none" /\ r.ai.is_real_file /\ ~r.ai.config.args.accurate) =>
            /\ r.res = "ErrNoAdapter"
            /\ r.wrote = <<>>
            /\ r.ran = 0 /\ ~r.hit /\ ~r.stored /\ r.prior = None
            /\ r \in DoneTop =>
                  /\ out[t] = <<>> /\ stdout[t] = <<>>
                  /\ \A nk \in DOMAIN history : history[nk].call # r.id

C8_Witness ==
    \E t \in Threads :
        /\ Done(t)
        /\ stack[t][1].arm = "none"
        /\ stack[t][1].res = "ErrNoAdapter"
        /\ stack[t][1].ai.config.cache
        /\ store # <<>>

\* C9: when the adapter or the sink's finish fails on the miss path, the call
\* returns an error, no entry exists for the key, and an invocation that asks
\* for the key after a failure misses and runs the adapter
C9_FailureNotCached ==
    \A t \in Threads :
        Done(t) =>
            LET f == stack[t][1]
            IN  /\ (UseCache(f.ai.config) /\ (f.adapt_failed \/ f.res = "ErrFinish"))
                      => /\ f.res \in {"ErrAdaptCached", "ErrFinish"}
                         /\ ~f.stored
                         /\ KeyOf(f) \notin DOMAIN store
                         /\ history[KeyOf(f)].outcome = "failed"
                         /\ \A nk \in DOMAIN store :
                               /\ history[nk].outcome = "stored"
                               /\ history[nk].call # f.id
                /\ (AskedCache(f) /\ IsSome(f.prior)
                    /\ Unwrap(f.prior).outcome = "failed")
                      => (~f.hit /\ f.ran = 1)

C9_Witness ==
    \E t \in Threads :
        /\ Done(t)
        /\ IsSome(stack[t][1].prior)
        /\ Unwrap(stack[t][1].prior).outcome = "failed"
        /\ stack[t][1].ran = 1
        /\ stack[t][1].adapt_failed
        /\ stack[t][1].adapter_wrote # <<>>
        /\ store = <<>>

\* the invocations on record of thread t: those in flight and those returned
AllInvs(t) == {stack[t][k] : k \in 1..Len(stack[t])} \cup ReturnedInvs(t)

\* C10: every configuration handed to an adapter has no cache, so a nested
\* invocation never asks the cache, and one top-level invocation writes at
\* most one entry, itself
C10_NestedNoCache ==
    /\ \A t \in Threads : \A f \in AllInvs(t) :
          IsSome(f.handed) => ~Unwrap(f.handed).cache
    /\ \A t \in Threads : \A k \in 2..Len(stack[t]) :
          /\ ~stack[t][k].ai.config.cache
          /\ stack[t][k].pc # "lock"
          /\ ~IsSome(stack[t][k].compbuf)
    /\ \A t \in Threads : \A k \in 1..Len(stack[t]) :
          IsSome(stack[t][k].child) =>
              LET c == Unwrap(stack[t][k].child)
              IN  ~c.ai.config.cache /\ ~c.hit /\ ~c.stored /\ c.prior = None
    /\ \A nk \in DOMAIN history : history[nk].level = 1
    /\ \A nk1, nk2 \in DOMAIN store :
          history[nk1].call = history[nk2].call => nk1 = nk2

C10_Witness ==
    \E t \in Threads :
        /\ Len(stack[t]) = 2
        /\ stack[t][1].ai.config.cache
        /\ IsSome(stack[t][1].compbuf)
        /\ stack[t][2].pc = "adapting"
        /\ stack[t][2].ran = 1
        /\ ~stack[t][2].ai.config.cache

\* C11: an invocation replays only an entry computed by the same version of
\* the adapter it selects: an entry stored for the same file by another
\* version of that adapter lies under another namespace and key, and the
\* invocation does not decode it
C11_VersionInNamespace ==
    \A t \in Threads : \A f \in ReturnedInvs(t) :
        AskedCache(f) =>
            /\ f.hit => /\ Unwrap(f.prior).adapter = Unwrap(f.adapter)
                        /\ Unwrap(f.prior).adapter.version = versions[Unwrap(f.adapter).name]
            /\ \A nk \in DOMAIN store :
                  (/\ history[nk].adapter.name = Unwrap(f.adapter).name
                   /\ history[nk].adapter.version # Unwrap(f.adapter).version)
                      => /\ nk[1] # f.db_name
                         /\ nk # KeyOf(f)
                         /\ (f.hit => Unwrap(f.prior) # history[nk])

C11_Witness ==
    \E f \in DoneTop :
        /\ AskedCache(f) /\ ~f.hit /\ f.ran = 1
        /\ \E nk \in DOMAIN store :
              /\ history[nk].call < f.id
              /\ history[nk].path = clean(f.ai.filepath_hint)
              /\ history[nk].mtime = f.seen_mtime
              /\ history[nk].adapters = f.ai.config.args.adapters
              /\ history[nk].adapter.name = Unwrap(f.adapter).name
              /\ history[nk].adapter.version # Unwrap(f.adapter).version
              /\ nk[2] = f.cache_key

\* two invocations that ran at the same time
Overlapped(f, g) == f.id \in g.overlaps \/ g.id \in f.overlaps

\* C12 (as claimed): of two invocations that ran at the same time and asked
\* the cache for the same namespace and key, at most one has stored its
\* computation, and when one stored and the other replayed, both received
\* the same output on their output streams
C12_SameKeyConsistentOutcome ==
    \A t, u \in Threads :
        (/\ t # u /\ Done(t) /\ Done(u)
         /\ Overlapped(stack[t][1], stack[u][1])
         /\ AskedCache(stack[t][1]) /\ AskedCache(stack[u][1])
         /\ KeyOf(stack[t][1]) = KeyOf(stack[u][1]))
            => /\ ~(stack[t][1].stored /\ stack[u][1].stored)
               /\ (stack[t][1].stored /\ stack[u][1].hit) => out[t] = out[u]

\* C13 (as claimed): nested invocations carry a depth one above their
\* caller's, no invocation at or beyond max_archive_recursion runs an adapter
\* or goes further down, no chain is deeper than max_archive_recursion, and
\* a nested invocation at the limit returns success with the marker line
C13_RecursionBoundedBySuccess ==
    \A t \in Threads :
        /\ \A k \in 2..Len(stack[t]) :
              stack[t][k].ai.archive_recursion_depth
                  = stack[t][k - 1].ai.archive_recursion_depth + 1
        /\ \A f \in AllInvs(t) :
              /\ f.ai.archive_recursion_depth <= f.ai.config.args.max_archive_recursion
              /\ DepthGuard(f.ai) => (f.ran = 0 /\ f.pc = "done" /\ f.child = None)
        /\ \A k \in 1..Len(stack[t]) :
              (IsSome(stack[t][k].child) /\ DepthGuard(Unwrap(stack[t][k].child).ai))
                  => /\ Unwrap(stack[t][k].child).res = "Ok"
                     /\ Unwrap(stack[t][k].child).wrote
                            = MarkerLine(stack[t][k].ai.line_prefix)

\* the top-level invocation of thread t is on the cache-miss path
OnMissPath(t) ==
    /\ stack[t] # <<>>
    /\ UseCache(stack[t][1].ai.config)
    /\ stack[t][1].ran = 1

\* C14 (as claimed): on the cache-miss path the real output stream holds, at
\* every moment, all the bytes the adapter has written so far
C14_ImmediateDelivery ==
    \A t \in Threads : OnMissPath(t) => out[t] = stack[t][1].adapter_wrote

\* C14 (amended): on the cache-miss path the real output stream holds, while
\* the adapter runs, what the adapter has written but for the bytes still in
\* the BufWriter, at most its capacity; once the invocation has returned it
\* holds every byte the adapter wrote, in order and unmodified, whether the
\* blob was stored, the cap overflowed, or the adapter or the sink failed
C14_DeliveredByReturn ==
    \A t \in Threads :
        OnMissPath(t) =>
            LET f == stack[t][1]
            IN  /\ f.pc = "adapting" =>
                      /\ out[t] \o Unwrap(f.compbuf).buf = f.adapter_wrote
                      /\ Len(Unwrap(f.compbuf).buf) <= BufWriterCapacity
                /\ f.pc = "done" =>
                      /\ out[t] = f.adapter_wrote
                      /\ f.compbuf = None
                /\ f.pc \in {"adapting", "done"}

C14_Witness ==
    \E t \in Threads :
        /\ OnMissPath(t)
        /\ stack[t][1].pc = "done"
        /\ stack[t][1].res = "ErrAdaptCached"
        /\ stack[t][1].adapter_wrote # <<>>
        /\ Len(stack[t][1].adapter_wrote) < BufWriterCapacity
        /\ out[t] = stack[t][1].adapter_wrote

\* C15 (as claimed): an invocation about to ask the cache does not have to
\* wait for an invocation of another thread that runs its adapter for another
\* key over the same cache handle
C15_DifferentKeysDoNotWait ==
    \A t, u \in Threads :
        (/\ t # u /\ stack[t] # <<>> /\ stack[u] # <<>>
         /\ stack[t][1].pc = "lock"
         /\ stack[u][1].pc = "adapting" /\ UseCache(stack[u][1].ai.config)
         /\ KeyOf(stack[t][1]) # KeyOf(stack[u][1]))
            => Acquirable(t)

\* C16 (as claimed): an invocation that is not a real file, for which an
\* adapter matches and a cache is present, does not fail for want of
\* filesystem metadata of its path
C16_SyntheticPathNoMetadata ==
    \A t \in Threads : \A f \in ReturnedInvs(t) :
        (~f.ai.is_real_file /\ f.arm = "some" /\ UseCache(f.ai.config))
            => f.res # "ErrMetadata"

\* the errors rga_preproc returns before it has selected an adapter or asked
\* the cache, and those it returns from the adapter call
EarlyErrors == {"ErrAdapters", "ErrEmptyFilename", "ErrMetadata", "ErrNoAdapter"}
AdaptErrors == {"ErrAdaptCached", "ErrAdaptUncached", "ErrFinish"}

\* C17: an invocation runs its adapter at most once; an invocation with an
\* error has returned; an error of the filename, the metadata or the
\* no-adapter policy comes with no adapter run and no cache access, an error
\* of the adapter or of the sink with exactly one run, nothing replayed and
\* nothing stored by the invocation, and the cache lock given back
C17_NoRetry ==
    \A t \in Threads : \A f \in AllInvs(t) :
        /\ f.ran <= 1
        /\ f.res \in {"Ok", "Pending"} \cup EarlyErrors \cup AdaptErrors
        /\ f.res \notin {"Ok", "Pending"} => f.pc = "done"
        /\ f.res \in EarlyErrors =>
              /\ f.ran = 0 /\ ~f.hit /\ ~f.stored
              /\ f.prior = None /\ f.compbuf = None
              /\ f.wrote = <<>> /\ f.adapter_wrote = <<>>
        /\ f.res \in AdaptErrors =>
              /\ f.ran = 1 /\ ~f.hit /\ ~f.stored
              /\ f.compbuf = None
              /\ (f.res = "ErrAdaptUncached") <=> ~UseCache(f.ai.config)
              /\ UseCache(f.ai.config) =>
                    /\ lock # t
                    /\ KeyOf(f) \in DOMAIN history
                    /\ \A nk \in DOMAIN store : history[nk].call # f.id

C17_Witness ==
    \E f \in DoneTop :
        /\ f.res = "ErrAdaptCached"
        /\ f.ran = 1
        /\ IsSome(f.child)
        /\ Unwrap(f.child).res = "ErrEmptyFilename"
        /\ history[KeyOf(f)].call = f.id

\* C18: the reader an invocation hands to its adapter or to the passthrough
\* copy yields the whole input from its first byte; in accurate mode the peek
\* has filled the buffer and consumed nothing, otherwise nothing has been read
\* from the input; a passthrough in accurate mode writes every input line,
\* the peeked prefix included
C18_PeekDoesNotConsume ==
    \A t \in Threads : \A f \in AllInvs(t) :
        /\ IsSome(f.reader) <=> f.arm \in {"some", "none"}
        /\ IsSome(f.reader) =>
              LET r == Unwrap(f.reader)
              IN  /\ ReadAll(r) = f.ai.inp
                  /\ r.pos = 0
                  /\ IF f.ai.config.args.accurate
                     THEN r.buf = fill_buf(f.ai.inp)
                     ELSE r.buf = <<>> /\ r.inner = f.ai.inp
        /\ (f.arm = "none" /\ f.res = "Ok") =>
              /\ f.wrote = postproc_line_prefix(f.ai.line_prefix, f.ai.inp)
              /\ Len(f.wrote) >= Len(f.ai.inp)

C18_Witness ==
    \E f \in DoneTop :
        /\ f.arm = "none" /\ f.res = "Ok"
        /\ f.ai.config.args.accurate /\ f.ai.is_real_file
        /\ Unwrap(f.reader).buf = <<104, 10, 105>>
        /\ f.ai.inp = <<104, 10, 105>>
        /\ f.wrote = <<62, 104, 10, 62, 105, 10>>

\* C19: the cache lock is held only by a thread whose top-level invocation
\* runs its adapter on the miss path; no invocation nested under it, running
\* or returned, has a cache or waits for the lock, and the innermost adapter
\* can go on
C19_NoSelfDeadlock ==
    /\ lock \in {0} \cup procs
    /\ \A t \in Threads :
          lock = t =>
              /\ stack[t] # <<>>
              /\ stack[t][1].pc = "adapting"
              /\ IsSome(stack[t][1].compbuf)
              /\ \A k \in 2..Len(stack[t]) :
                    /\ ~UseCache(stack[t][k].ai.config)
                    /\ stack[t][k].pc = "adapting"
                    /\ stack[t][k].cache_key = <<>>
              /\ \A k \in 1..Len(stack[t]) :
                    IsSome(stack[t][k].child) =>
                        /\ ~UseCache(Unwrap(stack[t][k].child).ai.config)
                        /\ Unwrap(stack[t][k].child).cache_key = <<>>
              /\ ENABLED AdaptReturns(t, TRUE, TRUE)

C19_Witness ==
    \E t, u \in Threads :
        /\ lock = t
        /\ Len(stack[t]) = 2
        /\ stack[t][2].pc = "adapting"
        /\ Unwrap(stack[t][2].adapter).recurses
        /\ stack[t][2].ai.archive_recursion_depth = 1
        /\ u # t /\ stack[u] # <<>> /\ stack[u][1].pc = "lock"

\* C20: an invocation that has returned, with success or with an error, or
\* that has not yet asked the cache, does not hold the cache lock; after an
\* invocation has returned an error, an invocation of another thread that
\* waits for the lock can take it
C20_LockReleasedOnReturn ==
    /\ \A t \in Threads :
          (stack[t] = <<>> \/ stack[t][1].pc \in {"done", "lock"}) => lock # t
    /\ \A t, u \in Threads :
          (/\ t # u /\ Done(t) /\ stack[t][1].res # "Ok"
           /\ stack[u] # <<>> /\ stack[u][1].pc = "lock")
              => /\ Acquirable(u)
                 /\ ENABLED (CacheHit(u) \/ CacheMiss(u))

C20_Witness ==
    \E t, u \in Threads :
        /\ t # u /\ Done(t) /\ Done(u)
        /\ Overlapped(stack[t][1], stack[u][1])
        /\ stack[t][1].res = "ErrAdaptCached"
        /\ stack[u][1].res = "Ok" /\ stack[u][1].stored
        /\ IsSome(stack[u][1].prior)
        /\ Unwrap(stack[u][1].prior).outcome = "failed"
        /\ Unwrap(stack[u][1].prior).call = stack[t][1].id
        /\ lock = 0

====
